---- MODULE Spec2Model ----
(***************************************************************************)
(* State-machine model of the family-partnership simulation engine         *)
(* (src/simulation.py): Config, Person, Simulation.__init__ with a seeded  *)
(* initial-population table, Simulation.run and the five phases of         *)
(* Simulation._tick.                                                       *)
(*                                                                         *)
(* Conventions.                                                            *)
(*  - An Optional[int] field is a sequence of length <= 1: None is <<>>,   *)
(*    the value y is <<y>>.                                                *)
(*  - A probability is held in percent (invite_prob 0.6 is 60), and        *)
(*    fertility_mean in tenths (1.6 is 16).  rng.random() lies in [0, 1),  *)
(*    so the comparison random() < p is always true for p >= 1, never true *)
(*    for p <= 0 and may go either way in between.                         *)
(*  - rng is the number of values drawn from the generator so far.         *)
(*  - Each loop iteration of _tick is one step; pc names the loop and      *)
(*    queue holds the ids the loop still has to visit, in dict order.      *)
(***************************************************************************)
EXTENDS Integers, Sequences, FiniteSets

VARIABLES cfg, year, people, next_id, history, rng, pc, queue, ticks

vars == <<cfg, year, people, next_id, history, rng, pc, queue, ticks>>

(***************************************************************************)
(* Bounds of the model.                                                    *)
(***************************************************************************)
\* largest horizon_years of a Config
MaxHorizon == 2
\* largest number of rows of the initial-population table
MaxRows == 2
\* largest population: a birth that would exceed it is not explored
MaxPeople == 3

\* number of persons the model builds of each cohort of the default
\* starting population
BootstrapPerCohort == 1

(***************************************************************************)
(* Program constants.                                                      *)
(***************************************************************************)
InviteAge == 26
DefaultFertilityAgeStart == 28
DefaultFertilityAgeEnd == 42
DefaultMortalityMean == 85
DefaultProbationMin == 6
DefaultProbationMax == 9
DefaultAgePartnerToEmeritus == 55
DefaultAgeEconRightsEnd == 65
\* start_year of the scenarios of tests/test_simulation.py
StartYear == 2000

None == <<>>
Some(x) == <<x>>
Val(o) == o[1]

Status == {"child", "trainee", "partner_active", "partner_emeritus", "washout", "deceased"}

PartnerStatus == {"partner_active", "partner_emeritus"}

(***************************************************************************)
(* Config: the fields the engine reads.  The rates are either the          *)
(* defaults of the dataclass, where every draw can go both ways, or the    *)
(* forcing values of tests/test_simulation.py (promotion_prob = 1.0,       *)
(* fertility_mean = 100) together with invite_prob = 1.0, where every      *)
(* Bernoulli draw succeeds.                                                *)
(***************************************************************************)
Rates ==
    { [fertility_mean |-> 16, invite_prob |-> 60, promotion_prob |-> 70],
      [fertility_mean |-> 1000, invite_prob |-> 100, promotion_prob |-> 100] }

ConfigOf(rates, horizon) ==
    [ start_year |-> StartYear,
      horizon_years |-> horizon,
      fertility_mean |-> rates.fertility_mean,
      fertility_age_start |-> DefaultFertilityAgeStart,
      fertility_age_end |-> DefaultFertilityAgeEnd,
      mortality_mean |-> DefaultMortalityMean,
      sex_ratio |-> 50,
      invite_prob |-> rates.invite_prob,
      promotion_prob |-> rates.promotion_prob,
      probation_min |-> DefaultProbationMin,
      probation_max |-> DefaultProbationMax,
      age_partner_to_emeritus |-> DefaultAgePartnerToEmeritus,
      age_econ_rights_end |-> DefaultAgeEconRightsEnd,
      eligible_parent_status |-> PartnerStatus ]

Config == { ConfigOf(r, h) : r \in Rates, h \in 1..MaxHorizon }

(***************************************************************************)
(* Person, as constructed with the dataclass defaults.                     *)
(***************************************************************************)
Person(id, birth_year, generation, status) ==
    [ id |-> id, birth_year |-> birth_year, generation |-> generation,
      status |-> status, parent_ids |-> <<>>, death_year |-> None,
      partner_since |-> None, emeritus_since |-> None,
      econ_rights_end_year |-> None, sex |-> "F" ]

\* year - p.birth_year
get_age(p, y) == y - p.birth_year

Min(S) == CHOOSE x \in S : \A z \in S : x <= z

\* the keys of a dict in iteration order: ids are inserted in increasing order
RECURSIVE KeysInOrder(_)
KeysInOrder(S) ==
    IF S = {} THEN <<>>
    ELSE LET m == Min(S) IN <<m>> \o KeysInOrder(S \ {m})

\* self.people[k] = v
Put(store, k, v) == [x \in DOMAIN store \cup {k} |-> IF x = k THEN v ELSE store[x]]

(***************************************************************************)
(* The initial-population table.  A row holds the columns                  *)
(* _add_person_from_row reads; a NaN column is <<>>.  Ages are at          *)
(* StartYear and stand on both sides of the engine's age thresholds.       *)
(***************************************************************************)
Row(status, age, death_year, parent_ids) ==
    [ birth_year |-> StartYear - age, generation |-> 1, status |-> status,
      parent_ids |-> parent_ids, death_year |-> death_year,
      partner_since |-> None, emeritus_since |-> None,
      econ_rights_end_year |-> None, sex |-> "F" ]

SeedRows ==
    { Row("partner_active", 30, Some(StartYear + 100), <<>>),
      Row("partner_active", 54, Some(StartYear + 100), <<>>),
      [ Row("partner_emeritus", 64, None, <<>>)
          EXCEPT !.partner_since = Some(StartYear - 32),
                 !.emeritus_since = Some(StartYear - 9) ],
      Row("trainee", 34, None, <<>>),
      Row("child", 26, None, <<1>>),
      Row("child", 25, Some(StartYear + 100), <<>>),
      Row("deceased", 70, None, <<>>),
      \* a trainee past the probation window, a child past the invitation
      \* age, and an active partner whose row carries an emeritus_since
      Row("trainee", 36, Some(StartYear + 100), <<>>),
      Row("child", 27, Some(StartYear + 100), <<>>),
      [ Row("partner_active", 56, Some(StartYear + 100), <<>>)
          EXCEPT !.partner_since = Some(StartYear - 24),
                 !.emeritus_since = Some(StartYear - 1) ] }

\* the tables of at most MaxRows rows in which a recorded parent is a row
\* above the child's own
Tables ==
    { t \in UNION { [1..n -> SeedRows] : n \in 1..MaxRows } :
        \A i \in DOMAIN t : \A j \in DOMAIN t[i].parent_ids : t[i].parent_ids[j] < i }

\* Simulation._add_person_from_row on the engine state s = [people, next_id]
AddPersonFromRow(s, row) ==
    LET p == [ id |-> s.next_id,
               birth_year |-> row.birth_year,
               generation |-> row.generation,
               status |-> row.status,
               parent_ids |-> row.parent_ids,
               death_year |-> row.death_year,
               partner_since |-> row.partner_since,
               emeritus_since |-> row.emeritus_since,
               econ_rights_end_year |-> row.econ_rights_end_year,
               sex |-> row.sex ]
    IN [ people |-> Put(s.people, s.next_id, p), next_id |-> s.next_id + 1 ]

\* for _, row in initial_people.iterrows(): self._add_person_from_row(row)
RECURSIVE AddRows(_, _)
AddRows(s, rows) ==
    IF rows = <<>> THEN s
    ELSE AddRows(AddPersonFromRow(s, Head(rows)), Tail(rows))

\* Simulation.__init__ with an initial-population table
Construct(c, table) ==
    LET s == AddRows([people |-> <<>>, next_id |-> 1], table)
    IN /\ cfg = c
       /\ year = c.start_year
       /\ people = s.people
       /\ next_id = s.next_id
       /\ history = <<>>
       /\ rng = 0

Init ==
    /\ \E c \in Config, table \in Tables : Construct(c, table)
    /\ pc = "run"
    /\ queue = <<>>
    /\ ticks = 0

(***************************************************************************)
(* The random draws.                                                       *)
(***************************************************************************)
\* rng.random() < p for p in percent
Bernoulli(pct) ==
    IF pct >= 100 THEN {TRUE} ELSE IF pct <= 0 THEN {FALSE} ELSE BOOLEAN

\* int(rng.normal(mortality_mean, mortality_sd)): any integer may come out.
\* For a person of the given age the model draws a lifespan that is over
\* this year, one that ends next year, and one no horizon reaches.
NormalDraws(age) == {age, age + 1, age + cfg.mortality_mean}

(***************************************************************************)
(* run(): the loop head, and the return.                                   *)
(***************************************************************************)
StartTick ==
    /\ pc = "run"
    /\ ticks < cfg.horizon_years
    /\ pc' = "death"
    /\ queue' = KeysInOrder(DOMAIN people)
    /\ UNCHANGED <<cfg, year, people, next_id, history, rng, ticks>>

Finish ==
    /\ pc = "run"
    /\ ticks >= cfg.horizon_years
    /\ pc' = "done"
    /\ UNCHANGED <<cfg, year, people, next_id, history, rng, queue, ticks>>

(***************************************************************************)
(* Phase 1: death, rights end, active -> emeritus.                         *)
(***************************************************************************)
\* mutant: the death year is drawn anew whether or not the person has one
DrawDeathYearAlways(p, exp_death) ==
    [p EXCEPT !.death_year = Some(p.birth_year + exp_death)]

\* the draw of the death year, made when the person has none
DrawDeathYear(p, exp_death) ==
    IF p.death_year = None
    THEN [p EXCEPT !.death_year = Some(p.birth_year + exp_death)]
    ELSE p

\* mutant: year > p.death_year in place of year >= p.death_year
DeathCheckStrict(p, y) ==
    IF y > Val(p.death_year) THEN [p EXCEPT !.status = "deceased"] ELSE p

\* if year >= p.death_year: p.status = 'deceased'
DeathCheck(p, y) ==
    IF y >= Val(p.death_year) THEN [p EXCEPT !.status = "deceased"] ELSE p

\* econ rights end
RightsEnd(p, y) ==
    IF /\ p.status \in PartnerStatus
       /\ p.econ_rights_end_year = None
       /\ get_age(p, y) >= cfg.age_econ_rights_end
    THEN [p EXCEPT !.econ_rights_end_year = Some(y)]
    ELSE p

\* mutant: age > threshold in place of age >= threshold
ToEmeritusStrict(p, y) ==
    IF p.status = "partner_active" /\ get_age(p, y) > cfg.age_partner_to_emeritus
    THEN [p EXCEPT !.status = "partner_emeritus", !.emeritus_since = Some(y)]
    ELSE p

\* active -> emeritus
ToEmeritus(p, y) ==
    IF p.status = "partner_active" /\ get_age(p, y) >= cfg.age_partner_to_emeritus
    THEN [p EXCEPT !.status = "partner_emeritus", !.emeritus_since = Some(y)]
    ELSE p

\* mutant: the loop does not skip a deceased person
DeathAndRightsOfNoSkip(p, y, exp_death) ==
    ToEmeritus(RightsEnd(DeathCheck(DrawDeathYear(p, exp_death), y), y), y)

\* mutant: the rights end is evaluated before the death check takes effect
DeathAndRightsOfRightsFirst(p, y, exp_death) ==
    IF p.status = "deceased" THEN p
    ELSE LET q == RightsEnd(DrawDeathYear(p, exp_death), y)
         IN IF y >= Val(q.death_year) THEN [q EXCEPT !.status = "deceased"]
            ELSE ToEmeritus(q, y)

\* one iteration of the first loop of _tick on person p
DeathAndRightsOf(p, y, exp_death) ==
    IF p.status = "deceased" THEN p
    ELSE ToEmeritus(RightsEnd(DeathCheck(DrawDeathYear(p, exp_death), y), y), y)

\* whether the iteration on p consumes a draw
NeedsDeathDraw(p) == p.status # "deceased" /\ p.death_year = None

DeathAndRights ==
    /\ pc = "death"
    /\ queue # <<>>
    /\ LET k == Head(queue)
           p == people[k]
       IN IF NeedsDeathDraw(p)
          THEN /\ \E exp_death \in NormalDraws(get_age(p, year)) :
                      people' = [people EXCEPT ![k] = DeathAndRightsOf(p, year, exp_death)]
               /\ rng' = rng + 1
          ELSE /\ people' = [people EXCEPT ![k] = DeathAndRightsOf(p, year, 0)]
               /\ rng' = rng
    /\ queue' = Tail(queue)
    /\ UNCHANGED <<cfg, year, next_id, history, pc, ticks>>

(***************************************************************************)
(* Phase 2: births.                                                        *)
(***************************************************************************)
\* mutant: the list of parents is not filtered by status
IsBirthCandidateAnyStatus(p, y) ==
    /\ get_age(p, y) >= cfg.fertility_age_start
    /\ get_age(p, y) <= cfg.fertility_age_end

\* the condition of the list comprehension that builds parents
IsBirthCandidate(p, y) ==
    /\ p.status \in PartnerStatus
    /\ get_age(p, y) >= cfg.fertility_age_start
    /\ get_age(p, y) <= cfg.fertility_age_end

\* parents = [p for p in self.people.values() if ...]
SelectParents ==
    /\ pc = "death"
    /\ queue = <<>>
    /\ pc' = "births"
    /\ queue' = SelectSeq(KeysInOrder(DOMAIN people),
                          LAMBDA k : IsBirthCandidate(people[k], year))
    /\ UNCHANGED <<cfg, year, people, next_id, history, rng, ticks>>

\* rng.random() < fertility_mean / years_window, fertility_mean in tenths
BirthDraw ==
    LET years_window == cfg.fertility_age_end - cfg.fertility_age_start + 1
    IN IF cfg.fertility_mean >= 10 * years_window THEN {TRUE}
       ELSE IF cfg.fertility_mean <= 0 THEN {FALSE}
       ELSE BOOLEAN

\* mutant: the child gets its parent's generation
NewChildSameGeneration(parent, male) ==
    [ Person(next_id, year, parent.generation, "child")
        EXCEPT !.parent_ids = <<parent.id>>,
               !.sex = IF male THEN "M" ELSE "F" ]

\* the Person that _create_child builds
NewChild(parent, male) ==
    [ Person(next_id, year, parent.generation + 1, "child")
        EXCEPT !.parent_ids = <<parent.id>>,
               !.sex = IF male THEN "M" ELSE "F" ]

\* mutant: next_id is not advanced after the insertion
CreateChildKeepNextId(parent) ==
    \E male \in Bernoulli(cfg.sex_ratio) :
        /\ people' = Put(people, next_id, [ Person(next_id, year, parent.generation + 1, "child")
                                              EXCEPT !.parent_ids = <<parent.id>>,
                                                     !.sex = IF male THEN "M" ELSE "F" ])
        /\ next_id' = next_id

\* Simulation._create_child
CreateChild(parent) ==
    \E male \in Bernoulli(cfg.sex_ratio) :
        /\ people' = Put(people, next_id, NewChild(parent, male))
        /\ next_id' = next_id + 1

Births ==
    /\ pc = "births"
    /\ queue # <<>>
    /\ \E born \in BirthDraw :
          IF born
          THEN /\ next_id <= MaxPeople
               /\ CreateChild(people[Head(queue)])
               /\ rng' = rng + 2
          ELSE /\ rng' = rng + 1
               /\ UNCHANGED <<people, next_id>>
    /\ queue' = Tail(queue)
    /\ UNCHANGED <<cfg, year, history, pc, ticks>>

(***************************************************************************)
(* Phase 3: invitations at 26.                                             *)
(***************************************************************************)
StartInvitations ==
    /\ pc = "births"
    /\ queue = <<>>
    /\ pc' = "invite"
    /\ queue' = KeysInOrder(DOMAIN people)
    /\ UNCHANGED <<cfg, year, people, next_id, history, rng, ticks>>

\* Simulation._is_parent_eligible: the loop returns True on an eligible
\* parent, and the statement after the loop returns True as well
IsParentEligible(child) ==
    IF \E j \in 1..Len(child.parent_ids) :
          /\ child.parent_ids[j] \in DOMAIN people
          /\ people[child.parent_ids[j]].status \in cfg.eligible_parent_status
    THEN TRUE
    ELSE TRUE

\* whether the iteration on p reaches the invitation draw
NeedsInviteDraw(p) ==
    p.status = "child" /\ get_age(p, year) = InviteAge /\ IsParentEligible(p)

\* mutant: the invitation does not look at the status of the 26-year-old
InvitationOfAnyStatus(p, invited) ==
    IF get_age(p, year) = InviteAge
    THEN IF invited THEN [p EXCEPT !.status = "trainee"]
                    ELSE [p EXCEPT !.status = "washout"]
    ELSE p

\* one iteration of the third loop of _tick on person p
InvitationOf(p, invited) ==
    IF p.status = "child" /\ get_age(p, year) = InviteAge
    THEN IF IsParentEligible(p)
         THEN IF invited THEN [p EXCEPT !.status = "trainee"]
                         ELSE [p EXCEPT !.status = "washout"]
         ELSE [p EXCEPT !.status = "washout"]
    ELSE p

Invitations ==
    /\ pc = "invite"
    /\ queue # <<>>
    /\ LET k == Head(queue)
           p == people[k]
       IN IF NeedsInviteDraw(p)
          THEN /\ \E invited \in Bernoulli(cfg.invite_prob) :
                      people' = [people EXCEPT ![k] = InvitationOf(p, invited)]
               /\ rng' = rng + 1
          ELSE /\ people' = [people EXCEPT ![k] = InvitationOf(p, FALSE)]
               /\ rng' = rng
    /\ queue' = Tail(queue)
    /\ UNCHANGED <<cfg, year, next_id, history, pc, ticks>>

(***************************************************************************)
(* Phase 4: promotion.                                                     *)
(***************************************************************************)
StartPromotions ==
    /\ pc = "invite"
    /\ queue = <<>>
    /\ pc' = "promote"
    /\ queue' = KeysInOrder(DOMAIN people)
    /\ UNCHANGED <<cfg, year, people, next_id, history, rng, ticks>>

\* cfg.probation_min <= age - 26 <= cfg.probation_max
InProbationWindow(p) ==
    /\ cfg.probation_min <= get_age(p, year) - InviteAge
    /\ get_age(p, year) - InviteAge <= cfg.probation_max

\* whether the iteration on p reaches the promotion draw
NeedsPromotionDraw(p) == p.status = "trainee" /\ InProbationWindow(p)

\* mutant: a promotion does not record partner_since
PromotionOfNoSince(p, promoted) ==
    IF p.status = "trainee" /\ InProbationWindow(p)
    THEN IF promoted
         THEN [p EXCEPT !.status = "partner_active"]
         ELSE IF get_age(p, year) >= InviteAge + cfg.probation_max
              THEN [p EXCEPT !.status = "washout"]
              ELSE p
    ELSE p

\* mutant: the decision is made once, a failed draw is a washout at once
PromotionOfDecideOnce(p, promoted) ==
    IF p.status = "trainee" /\ InProbationWindow(p)
    THEN IF promoted
         THEN [p EXCEPT !.status = "partner_active", !.partner_since = Some(year)]
         ELSE [p EXCEPT !.status = "washout"]
    ELSE p

\* one iteration of the fourth loop of _tick on person p
PromotionOf(p, promoted) ==
    IF p.status = "trainee" /\ InProbationWindow(p)
    THEN IF promoted
         THEN [p EXCEPT !.status = "partner_active", !.partner_since = Some(year)]
         ELSE IF get_age(p, year) >= InviteAge + cfg.probation_max
              THEN [p EXCEPT !.status = "washout"]
              ELSE p
    ELSE p

Promotions ==
    /\ pc = "promote"
    /\ queue # <<>>
    /\ LET k == Head(queue)
           p == people[k]
       IN IF NeedsPromotionDraw(p)
          THEN /\ \E promoted \in Bernoulli(cfg.promotion_prob) :
                      people' = [people EXCEPT ![k] = PromotionOf(p, promoted)]
               /\ rng' = rng + 1
          ELSE /\ people' = [people EXCEPT ![k] = PromotionOf(p, FALSE)]
               /\ rng' = rng
    /\ queue' = Tail(queue)
    /\ UNCHANGED <<cfg, year, next_id, history, pc, ticks>>

(***************************************************************************)
(* Phase 5: the metrics snapshot.                                          *)
(***************************************************************************)
\* sum(p.status == st for p in self.people.values())
CountStatus(st) == Cardinality({k \in DOMAIN people : people[k].status = st})

\* mutant: year <= econ_rights_end_year in place of year < econ_rights_end_year
is_econInclusive(p, y) ==
    /\ p.status \in PartnerStatus
    /\ (p.econ_rights_end_year = None \/ y <= Val(p.econ_rights_end_year))

is_econ(p, y) ==
    /\ p.status \in PartnerStatus
    /\ (p.econ_rights_end_year = None \/ y < Val(p.econ_rights_end_year))

\* mutant: emeritus partners are left out of the voting count
is_voteActiveOnly(p) == p.status = "partner_active" /\ p.status # "deceased"

is_vote(p) == p.status \in PartnerStatus /\ p.status # "deceased"

\* Simulation._counts
Counts(y) ==
    [ year |-> y,
      partners_active |-> CountStatus("partner_active"),
      partners_emeritus |-> CountStatus("partner_emeritus"),
      partners_economic |-> Cardinality({k \in DOMAIN people : is_econ(people[k], y)}),
      partners_voting |-> Cardinality({k \in DOMAIN people : is_vote(people[k])}),
      trainees |-> CountStatus("trainee"),
      children |-> CountStatus("child"),
      washouts |-> CountStatus("washout"),
      living |-> Cardinality({k \in DOMAIN people : people[k].status # "deceased"}) ]

\* mutant: the year counter is not advanced
NextYearStuck(y) == y

\* self.year += 1
NextYear(y) == y + 1

RecordMetrics ==
    /\ pc = "promote"
    /\ queue = <<>>
    /\ history' = Append(history, Counts(year))
    /\ year' = NextYear(year)
    /\ ticks' = ticks + 1
    /\ pc' = "run"
    /\ UNCHANGED <<cfg, people, next_id, rng, queue>>

Next ==
    \/ StartTick
    \/ DeathAndRights
    \/ SelectParents
    \/ Births
    \/ StartInvitations
    \/ Invitations
    \/ StartPromotions
    \/ Promotions
    \/ RecordMetrics
    \/ Finish

Spec == Init /\ [][Next]_vars

(***************************************************************************)
(* Vocabulary of the properties.                                           *)
(***************************************************************************)
\* the age of person k in the year of the current tick
AgeOf(k) == year - people[k].birth_year

\* the loop named by phase is visiting person k in this step
Visiting(phase, k) == pc = phase /\ queue # <<>> /\ Head(queue) = k

\* the state between two ticks, after at least one tick
TickDone == pc \in {"run", "done"} /\ history # <<>>

\* the year of the tick that ended last
LastYear == year - 1

\* the death year that rows of the initial-population table carry
SeedDeathYear == StartYear + 100

\* person k was born by the birth phase of this run
BornInRun(k) == people[k].birth_year >= StartYear

\* child c has a recorded parent, and no recorded parent has an eligible status
NoEligibleParent(c) ==
    /\ people[c].parent_ids # <<>>
    /\ \A j \in 1..Len(people[c].parent_ids) :
          LET pid == people[c].parent_ids[j]
          IN pid \in DOMAIN people => people[pid].status \notin {"partner_active", "partner_emeritus"}

(***************************************************************************)
(* C1.  Invitation gate: when the invitation loop visits a child of age    *)
(* exactly 26 that has a recorded parent and no recorded parent in an      *)
(* eligible status, the child becomes washout whatever invite_prob is, and *)
(* no random value is drawn.  The claim is for every invite_prob; it is    *)
(* stated here for the case its scenario names, invite_prob = 1.0.         *)
(***************************************************************************)
C1_InvitationGate ==
    [][ \A k \in DOMAIN people :
          ( /\ Visiting("invite", k)
            /\ people[k].status = "child"
            /\ AgeOf(k) = 26
            /\ NoEligibleParent(k)
            /\ cfg.invite_prob = 100 )
          => (people'[k].status = "washout" /\ rng' = rng) ]_vars

(***************************************************************************)
(* C3.  Monotone death: a person whose status is deceased stays deceased,  *)
(* and no step of any later phase changes any field of that person.        *)
(***************************************************************************)
C3_MonotoneDeath ==
    [][ \A k \in DOMAIN people :
          people[k].status = "deceased"
          => (k \in DOMAIN people' /\ people'[k] = people[k]) ]_vars

\* a person who died in the first tick, seen after the second tick
C3_Witness ==
    /\ TickDone
    /\ Len(history) >= 2
    /\ \E k \in DOMAIN people :
          /\ people[k].status = "deceased"
          /\ people[k].death_year # <<>>
          /\ people[k].death_year[1] <= StartYear

(***************************************************************************)
(* C4.  Immutable death year: a death_year that is set keeps its value in  *)
(* every step; a death_year changes only in the step of the death loop     *)
(* that visits the person, and that step draws exactly one value; the      *)
(* death loop draws only for a person whose death_year is unset, so the    *)
(* draw is made at most once per person.                                   *)
(***************************************************************************)
C4_ImmutableDeathYear ==
    [][ \A k \in DOMAIN people :
          /\ people[k].death_year # <<>>
             => people'[k].death_year = people[k].death_year
          /\ people'[k].death_year # people[k].death_year
             => (Visiting("death", k) /\ rng' = rng + 1)
          /\ (Visiting("death", k) /\ rng' # rng)
             => (people[k].death_year = <<>> /\ people'[k].death_year # <<>>) ]_vars

\* a living person whose death year was drawn in the first tick, after the
\* death loop of the second tick has visited everyone
C4_Witness ==
    /\ pc = "births"
    /\ Len(history) = 1
    /\ \E k \in DOMAIN people :
          /\ ~BornInRun(k)
          /\ people[k].status # "deceased"
          /\ people[k].death_year \notin {<<>>, <<SeedDeathYear>>}

(***************************************************************************)
(* C5.  Death rule: once the death loop of the tick for year Y is over,    *)
(* every person who is not deceased and has a death_year has               *)
(* death_year > Y; this holds through the rest of the tick and after it.   *)
(***************************************************************************)
C5_DeathRule ==
    /\ pc \in {"births", "invite", "promote"}
       => \A k \in DOMAIN people :
             (people[k].status # "deceased" /\ people[k].death_year # <<>>)
             => people[k].death_year[1] > year
    /\ TickDone
       => \A k \in DOMAIN people :
             (people[k].status # "deceased" /\ people[k].death_year # <<>>)
             => people[k].death_year[1] > LastYear

\* after a tick: one person died in it with death_year equal to its year
\* (drawn in that tick), another lives on with a death year
C5_Witness ==
    /\ TickDone
    /\ \E k \in DOMAIN people :
          /\ people[k].status = "deceased"
          /\ people[k].death_year = <<LastYear>>
    /\ \E k \in DOMAIN people :
          /\ people[k].status # "deceased"
          /\ people[k].death_year # <<>>

(***************************************************************************)
(* C6.  Child creation: a step of the birth loop in the tick for year Y    *)
(* either draws one value and leaves the population as it is, or draws two *)
(* (the birth draw succeeded, then the sex draw) and adds exactly one      *)
(* person, who has status child, birth_year = Y, parent_ids = [id of the   *)
(* visited parent] and generation = parent.generation + 1; no other step   *)
(* changes the population size.                                            *)
(***************************************************************************)
C6_ChildCreation ==
    [][ LET new == DOMAIN people' \ DOMAIN people
        IN IF pc = "births" /\ queue # <<>>
           THEN LET parent == people[Head(queue)]
                IN /\ Cardinality(DOMAIN people') = Cardinality(DOMAIN people) + Cardinality(new)
                   /\ \/ rng' = rng + 1 /\ new = {}
                      \/ rng' = rng + 2 /\ Cardinality(new) = 1
                   /\ \A c \in new :
                         /\ people'[c].status = "child"
                         /\ people'[c].birth_year = year
                         /\ people'[c].parent_ids = <<parent.id>>
                         /\ people'[c].generation = parent.generation + 1
           ELSE DOMAIN people' = DOMAIN people ]_vars

\* a child of generation 2 just created by the birth loop
C6_Witness ==
    /\ pc = "births"
    /\ \E c \in DOMAIN people :
          /\ people[c].status = "child"
          /\ people[c].birth_year = year
          /\ people[c].generation = 2
          /\ people[c].parent_ids # <<>>
          /\ c = next_id - 1

(***************************************************************************)
(* C7.  Promotion: with promotion_prob = 1.0, when the promotion loop of   *)
(* the tick for year Y visits a trainee whose age - 26 lies in             *)
(* [probation_min, probation_max], the person becomes partner_active with  *)
(* partner_since = Y, and nothing changes that person in the rest of the   *)
(* tick.                                                                   *)
(***************************************************************************)
C7_Promotion ==
    [][ (pc = "promote" /\ cfg.promotion_prob >= 100)
        => \A k \in DOMAIN people :
              IF /\ Visiting("promote", k)
                 /\ people[k].status = "trainee"
                 /\ cfg.probation_min <= AgeOf(k) - 26
                 /\ AgeOf(k) - 26 <= cfg.probation_max
              THEN /\ people'[k].status = "partner_active"
                   /\ people'[k].partner_since = <<year>>
              ELSE people[k].status = "partner_active" => people'[k] = people[k] ]_vars

\* after a tick with promotion_prob = 1.0, a partner promoted in that tick
C7_Witness ==
    /\ TickDone
    /\ cfg.promotion_prob = 100
    /\ \E k \in DOMAIN people :
          /\ people[k].status = "partner_active"
          /\ people[k].partner_since = <<LastYear>>

(***************************************************************************)
(* C8.  Emeritus transition: when the death loop of the tick for year Y    *)
(* visits a partner_active who does not die in it (Y < death_year), the    *)
(* person becomes partner_emeritus with emeritus_since = Y if              *)
(* age >= age_partner_to_emeritus, and otherwise stays partner_active with *)
(* emeritus_since unchanged; the other iterations of the loop leave the    *)
(* person's status and emeritus_since alone.                               *)
(***************************************************************************)
C8_Emeritus ==
    [][ pc = "death"
        => \A k \in DOMAIN people :
              IF Visiting("death", k)
              THEN ( /\ people[k].status = "partner_active"
                     /\ year < people'[k].death_year[1] )
                   => IF AgeOf(k) >= cfg.age_partner_to_emeritus
                      THEN /\ people'[k].status = "partner_emeritus"
                           /\ people'[k].emeritus_since = <<year>>
                      ELSE /\ people'[k].status = "partner_active"
                           /\ people'[k].emeritus_since = people[k].emeritus_since
              ELSE /\ people'[k].status = people[k].status
                   /\ people'[k].emeritus_since = people[k].emeritus_since ]_vars

\* the death loop is over and a person of exactly the threshold age became
\* emeritus in it, while a younger active partner stayed active
C8_Witness ==
    /\ pc = "births"
    /\ \E k \in DOMAIN people :
          /\ people[k].status = "partner_emeritus"
          /\ people[k].emeritus_since = <<year>>
          /\ AgeOf(k) = cfg.age_partner_to_emeritus
    /\ \E k \in DOMAIN people :
          /\ people[k].status = "partner_active"
          /\ AgeOf(k) < cfg.age_partner_to_emeritus

(***************************************************************************)
(* C9.  History shape: at every point the history holds one snapshot per   *)
(* completed tick, the k-th snapshot (from 0) has year = start_year + k,   *)
(* the year counter is start_year + the number of snapshots, and never     *)
(* more than horizon_years snapshots are held; when run() returns the      *)
(* history holds exactly horizon_years snapshots and the year counter is   *)
(* start_year + horizon_years.                                             *)
(***************************************************************************)
C9_HistoryShape ==
    /\ Len(history) <= cfg.horizon_years
    /\ year = cfg.start_year + Len(history)
    /\ \A i \in 1..Len(history) : history[i].year = cfg.start_year + (i - 1)
    /\ pc = "done"
       => /\ Len(history) = cfg.horizon_years
          /\ year = cfg.start_year + cfg.horizon_years

\* run() has returned after more than one tick
C9_Witness ==
    /\ pc = "done"
    /\ Len(history) >= 2
    /\ history[Len(history)].year = StartYear + Len(history) - 1

(***************************************************************************)
(* C10.  Identifier discipline: the keys of the population store are       *)
(* exactly 1..next_id-1 and each person's id is its key; next_id never     *)
(* decreases, no key is ever removed, and a key always names the same      *)
(* person (same id, birth_year, generation, parent_ids and sex), also      *)
(* once that person is deceased.                                           *)
(***************************************************************************)
C10_Identifiers ==
    /\ [](/\ DOMAIN people = 1..(next_id - 1)
          /\ \A k \in DOMAIN people : people[k].id = k)
    /\ [][ /\ next_id' >= next_id
           /\ DOMAIN people \subseteq DOMAIN people'
           /\ \A k \in DOMAIN people :
                 /\ people'[k].id = people[k].id
                 /\ people'[k].birth_year = people[k].birth_year
                 /\ people'[k].generation = people[k].generation
                 /\ people'[k].parent_ids = people[k].parent_ids
                 /\ people'[k].sex = people[k].sex ]_vars

\* a child was born after a person of the store had died
C10_Witness ==
    /\ \E k \in DOMAIN people : people[k].status = "deceased"
    /\ \E c \in DOMAIN people :
          /\ BornInRun(c)
          /\ c = next_id - 1
          /\ \E k \in DOMAIN people :
                /\ k < c
                /\ people[k].status = "deceased"
                /\ people[k].death_year # <<>>
                /\ people[k].death_year[1] < people[c].birth_year

(***************************************************************************)
(* C11.  Immutable rights/emeritus years: for every person, seeded with    *)
(* these fields set or not, an econ_rights_end_year that is set keeps its  *)
(* value in every step, and an emeritus_since that is set keeps its value  *)
(* in every step.                                                          *)
(***************************************************************************)
C11_ImmutableRightsEmeritus ==
    [][ \A k \in DOMAIN people :
          /\ people[k].econ_rights_end_year # <<>>
             => people'[k].econ_rights_end_year = people[k].econ_rights_end_year
          /\ people[k].emeritus_since # <<>>
             => people'[k].emeritus_since = people[k].emeritus_since ]_vars

\* the statuses a rule of a tick may move a person between
AllowedTransitions ==
    { <<"child", "trainee">>, <<"child", "washout">>,
      <<"trainee", "partner_active">>, <<"trainee", "washout">>,
      <<"partner_active", "partner_emeritus">> }
    \cup { <<st, "deceased">> :
             st \in {"child", "trainee", "partner_active", "partner_emeritus", "washout"} }

(***************************************************************************)
(* C12.  Monotone status transitions: the status of every person is always *)
(* one of the six defined values, and every step that changes a person's   *)
(* status makes one of child->trainee, child->washout,                     *)
(* trainee->partner_active, trainee->washout,                              *)
(* partner_active->partner_emeritus, or non-deceased->deceased.            *)
(***************************************************************************)
C12_MonotoneStatus ==
    /\ [](\A k \in DOMAIN people :
             people[k].status \in {"child", "trainee", "partner_active",
                                   "partner_emeritus", "washout", "deceased"})
    /\ [][ \A k \in DOMAIN people :
             people'[k].status # people[k].status
             => <<people[k].status, people'[k].status>> \in AllowedTransitions ]_vars

\* after two ticks: a child of the table has become a trainee, an active
\* partner has become emeritus, and someone has died
C12_Witness ==
    /\ TickDone
    /\ Len(history) = 2
    /\ \E k \in DOMAIN people :
          people[k].status = "partner_emeritus" /\ people[k].emeritus_since = <<LastYear>>
    /\ \E k \in DOMAIN people :
          /\ people[k].status = "trainee"
          /\ people[k].birth_year = LastYear - 26

(***************************************************************************)
(* C13 as claimed.  Same-tick death and rights lapse: when the death loop  *)
(* of the tick for year Y visits a partner_active or partner_emeritus with *)
(* econ_rights_end_year unset and age >= age_econ_rights_end who dies in   *)
(* that tick (Y >= death_year), the person still gets                      *)
(* econ_rights_end_year = Y.                                               *)
(***************************************************************************)
C13_Original ==
    [][ \A k \in DOMAIN people :
          ( /\ Visiting("death", k)
            /\ people[k].status \in {"partner_active", "partner_emeritus"}
            /\ people[k].econ_rights_end_year = <<>>
            /\ AgeOf(k) >= cfg.age_econ_rights_end
            /\ year >= people'[k].death_year[1] )
          => people'[k].econ_rights_end_year = <<year>> ]_vars

(***************************************************************************)
(* C13 as amended.  When the death loop of the tick for year Y visits a    *)
(* partner_active or partner_emeritus with econ_rights_end_year unset and  *)
(* age >= age_econ_rights_end, the person gets econ_rights_end_year = Y    *)
(* if it does not die in that tick (Y < death_year); if it dies in that    *)
(* tick it becomes deceased and econ_rights_end_year stays unset: the      *)
(* rights-lapse rule is evaluated on the status the death check leaves.    *)
(***************************************************************************)
C13_RightsLapseAfterDeathCheck ==
    [][ \A k \in DOMAIN people :
          ( /\ Visiting("death", k)
            /\ people[k].status \in {"partner_active", "partner_emeritus"}
            /\ people[k].econ_rights_end_year = <<>>
            /\ AgeOf(k) >= cfg.age_econ_rights_end )
          => IF year >= people'[k].death_year[1]
             THEN /\ people'[k].status = "deceased"
                  /\ people'[k].econ_rights_end_year = <<>>
             ELSE people'[k].econ_rights_end_year = <<year>> ]_vars

\* the death loop is over: a partner of the lapse age died in it with the
\* rights end unset
C13_Witness ==
    /\ pc = "births"
    /\ \E k \in DOMAIN people :
          /\ people[k].status = "deceased"
          /\ people[k].death_year = <<year>>
          /\ AgeOf(k) >= cfg.age_econ_rights_end
          /\ people[k].emeritus_since # <<>> \/ people[k].partner_since # <<>>
          /\ people[k].econ_rights_end_year = <<>>

(***************************************************************************)
(* C14.  Trainee exit: after every tick for year Y no non-deceased person  *)
(* has status trainee with Y - birth_year >= 26 + probation_max, for any   *)
(* initial population with probation_min <= probation_max.                 *)
(***************************************************************************)
C14_TraineeExit ==
    TickDone
    => \A k \in DOMAIN people :
          people[k].status = "trainee"
          => LastYear - people[k].birth_year < 26 + cfg.probation_max

AgeDraws(age_low, age_high) == {age_low, age_high}

\* the Person that create_many builds for a drawn age
BootstrapPerson(c, id, status, age) ==
    LET birth == c.start_year - age
        p == Person(id, birth, 6, status)
    IN IF status = "partner_active"
       THEN [p EXCEPT !.partner_since = Some(birth + 32)]
       ELSE IF status = "partner_emeritus"
       THEN [p EXCEPT !.partner_since = Some(birth + 32),
                      !.emeritus_since = Some(birth + c.age_partner_to_emeritus)]
       ELSE p

\* create_many on the engine state s = [people, next_id], one person per age
RECURSIVE CreateMany(_, _, _, _)
CreateMany(c, s, status, ages) ==
    IF ages = <<>> THEN s
    ELSE CreateMany(c,
                    [ people |-> Put(s.people, s.next_id,
                                     BootstrapPerson(c, s.next_id, status, Head(ages))),
                      next_id |-> s.next_id + 1 ],
                    status, Tail(ages))

\* Simulation.__init__ without an initial-population table
ConstructBootstrap(c, active, emeritus, trainees) ==
    LET s1 == CreateMany(c, [people |-> <<>>, next_id |-> 1], "partner_active", active)
        s2 == CreateMany(c, s1, "partner_emeritus", emeritus)
        s3 == CreateMany(c, s2, "trainee", trainees)
    IN /\ cfg = c
       /\ year = c.start_year
       /\ people = s3.people
       /\ next_id = s3.next_id
       /\ history = <<>>
       /\ rng = Len(active) + Len(emeritus) + Len(trainees)

\* the values of the "Age to emeritus" slider the model takes
UIConfig ==
    { [ ConfigOf([fertility_mean |-> 16, invite_prob |-> 60, promotion_prob |-> 70], h)
          EXCEPT !.age_partner_to_emeritus = a ] :
        h \in 1..MaxHorizon, a \in {45, DefaultAgePartnerToEmeritus, 70} }

InitBootstrap ==
    /\ \E c \in UIConfig :
          \E active \in [1..BootstrapPerCohort -> AgeDraws(35, 55)],
             emeritus \in [1..BootstrapPerCohort -> AgeDraws(56, 85)],
             trainees \in [1..BootstrapPerCohort -> AgeDraws(27, 32)] :
             ConstructBootstrap(c, active, emeritus, trainees)
    /\ pc = "run"
    /\ queue = <<>>
    /\ ticks = 0

SpecBootstrap == InitBootstrap /\ [][Next]_vars

\* the year of the tick in progress, or of the last tick between two ticks
TickYear == IF pc \in {"run", "done"} THEN LastYear ELSE year

\* the persons the birth phase of the tick in progress (or just ended) created
Newborns == {c \in DOMAIN people : BornInRun(c) /\ people[c].birth_year = TickYear}

\* the elements of a sequence
Range(q) == {q[i] : i \in DOMAIN q}

(***************************************************************************)
(* C16.  Birth phase ordering.  (a) The parents the birth loop of the tick *)
(* for year Y visits are exactly the persons who after the death loop have *)
(* status partner_active or partner_emeritus and an age in                 *)
(* [fertility_age_start, fertility_age_end], each once.  (b) Through the   *)
(* rest of the tick, every child created in it has one recorded parent,    *)
(* who is such a person (so not deceased, not created in this tick, not    *)
(* promoted in this tick), and no parent has two children of the tick.     *)
(* (c) After the tick a child created in it still has status child and no  *)
(* death_year, and snapshot Y counts it: children is the number of         *)
(* persons with status child and living the number of non-deceased ones.   *)
(***************************************************************************)
C16_BirthOrdering ==
    /\ [][ (pc = "death" /\ pc' = "births")
           => /\ Range(queue') =
                   { k \in DOMAIN people :
                       /\ people[k].status \in {"partner_active", "partner_emeritus"}
                       /\ AgeOf(k) >= cfg.fertility_age_start
                       /\ AgeOf(k) <= cfg.fertility_age_end }
              /\ \A i, j \in DOMAIN queue' : queue'[i] = queue'[j] => i = j ]_vars
    /\ [](history # <<>> \/ pc # "run"
          => /\ \A c \in Newborns :
                   /\ Len(people[c].parent_ids) = 1
                   /\ LET par == people[people[c].parent_ids[1]]
                      IN /\ par.status \in {"partner_active", "partner_emeritus"}
                         /\ TickYear - par.birth_year >= cfg.fertility_age_start
                         /\ TickYear - par.birth_year <= cfg.fertility_age_end
                         /\ par.partner_since # <<TickYear>>
                   /\ \A d \in Newborns :
                         people[d].parent_ids = people[c].parent_ids => d = c
             /\ TickDone
                => /\ \A c \in Newborns :
                         people[c].status = "child" /\ people[c].death_year = <<>>
                   /\ history[Len(history)].children
                        = Cardinality({k \in DOMAIN people : people[k].status = "child"})
                   /\ history[Len(history)].living
                        = Cardinality({k \in DOMAIN people : people[k].status # "deceased"}))

\* after a tick: a child was created in it, and a person promoted to partner
\* in this tick, of fertile age, has no child of this tick
C16_Witness ==
    /\ TickDone
    /\ Newborns # {}
    /\ history[Len(history)].children >= 1
    /\ \E k \in DOMAIN people :
          /\ people[k].status = "partner_active"
          /\ people[k].partner_since = <<LastYear>>
          /\ LastYear - people[k].birth_year >= cfg.fertility_age_start
          /\ LastYear - people[k].birth_year <= cfg.fertility_age_end
          /\ \A c \in Newborns : people[c].parent_ids # <<k>>

(***************************************************************************)
(* C17.  Economic-rights metric: in the snapshot for year Y,               *)
(* partners_economic is the number of persons with status partner_active   *)
(* or partner_emeritus whose econ_rights_end_year is unset or > Y, and     *)
(* partners_voting the number of persons with one of these statuses; so a  *)
(* living partner whose econ_rights_end_year is Y or earlier is counted in *)
(* partners_voting and not in partners_economic.                           *)
(***************************************************************************)
C17_EconomicMetric ==
    TickDone
    => LET snap == history[Len(history)]
           partners == {k \in DOMAIN people :
                          people[k].status \in {"partner_active", "partner_emeritus"}}
           lapsed == {k \in partners :
                        /\ people[k].econ_rights_end_year # <<>>
                        /\ people[k].econ_rights_end_year[1] <= LastYear}
       IN /\ snap.partners_economic = Cardinality(partners \ lapsed)
          /\ snap.partners_voting = Cardinality(partners)
          /\ snap.partners_voting - snap.partners_economic = Cardinality(lapsed)

\* after a tick in which a living partner's rights ended: the snapshot
\* counts it as voting and not as economic
C17_Witness ==
    /\ TickDone
    /\ \E k \in DOMAIN people :
          /\ people[k].status \in {"partner_active", "partner_emeritus"}
          /\ people[k].econ_rights_end_year = <<LastYear>>
    /\ history[Len(history)].partners_voting = 1
    /\ history[Len(history)].partners_economic = 0

(***************************************************************************)
(* C18.  No overdue child: after every tick for year Y no non-deceased     *)
(* person has status child with Y - birth_year >= 26, whatever the         *)
(* person's origin.                                                        *)
(***************************************************************************)
C18_NoOverdueChild ==
    TickDone
    => \A k \in DOMAIN people :
          people[k].status = "child" => LastYear - people[k].birth_year < 26

(***************************************************************************)
(* C19.  Snapshot arithmetic: in every snapshot of the history             *)
(* partners_voting = partners_active + partners_emeritus,                  *)
(* partners_economic <= partners_voting and living = partners_active +     *)
(* partners_emeritus + trainees + children + washouts; and after a tick    *)
(* the living of its snapshot plus the number of deceased persons is the   *)
(* size of the population store.                                           *)
(***************************************************************************)
C19_SnapshotArithmetic ==
    /\ \A i \in 1..Len(history) :
          LET snap == history[i]
          IN /\ snap.partners_voting = snap.partners_active + snap.partners_emeritus
             /\ snap.partners_economic <= snap.partners_voting
             /\ snap.living = snap.partners_active + snap.partners_emeritus
                                + snap.trainees + snap.children + snap.washouts
    /\ TickDone
       => history[Len(history)].living
            + Cardinality({k \in DOMAIN people : people[k].status = "deceased"})
          = Cardinality(DOMAIN people)

\* after two ticks: the last snapshot counts an emeritus partner whose
\* rights have ended, and the store holds a deceased person
C19_Witness ==
    /\ TickDone
    /\ Len(history) = 2
    /\ history[2].partners_emeritus >= 1
    /\ history[2].partners_economic < history[2].partners_voting
    /\ history[2].living < Cardinality(DOMAIN people)

(***************************************************************************)
(* C20.  Career-date consistency, for the default starting cohort and      *)
(* age_partner_to_emeritus within the UI range: at construction (Y the     *)
(* start year) and after every tick for year Y, every partner_emeritus has *)
(* partner_since <= emeritus_since <= Y and every partner_active has       *)
(* partner_since <= Y.                                                     *)
(***************************************************************************)
C20_CareerDates ==
    pc \in {"run", "done"}
    => LET Y == IF history = <<>> THEN year ELSE LastYear
       IN \A k \in DOMAIN people :
             /\ people[k].status = "partner_emeritus"
                => /\ people[k].partner_since # <<>>
                   /\ people[k].emeritus_since # <<>>
                   /\ people[k].partner_since[1] <= people[k].emeritus_since[1]
                   /\ people[k].emeritus_since[1] <= Y
             /\ people[k].status = "partner_active"
                => /\ people[k].partner_since # <<>>
                   /\ people[k].partner_since[1] <= Y

====
